---------------------------- MODULE Spec2Model ----------------------------
(***************************************************************************)
(* A model of ai_news_fetcher.py: the feed traversal of fetch_all, the     *)
(* per-entry pipeline of save_entry (required fields, timestamp parsing,   *)
(* existence check, content extraction, insert), the timestamp rule of     *)
(* parse_published and the candidate heuristic of fetch_article_content.   *)
(*                                                                         *)
(* Three specifications are given:                                         *)
(*   Spec         one invocation of the batch job at a time, repeated      *)
(*                (runs never overlap), with store, feed and extractor     *)
(*                failures and external termination;                       *)
(*   SpecConc     two invocations overlapping on the same store;           *)
(*   SpecExtract  fetch_article_content applied to every bounded page.     *)
(***************************************************************************)
EXTENDS Integers, Sequences, FiniteSets, TLC

(***************************************************************************)
(* Bounds of the model.                                                    *)
(***************************************************************************)
\* number of entries of the FEEDS list that are modelled
NumFeeds == 2
\* number of class-matched elements of a page
MaxClassed == 2

(***************************************************************************)
(* Values.                                                                 *)
(***************************************************************************)
\* Python's None where a string is expected (link, title)
None == "None"

\* Python's None where a text is expected (summary, content_text)
NoText == [src |-> "none", idx |-> 0, len |-> 0]

\* a string of text: where it was taken from and how many characters it has
Text(src, idx, len) == [src |-> src, idx |-> idx, len |-> len]

\* Python's None where a time.struct_time is expected
NoStruct == [some |-> FALSE, v |-> <<>>]

\* a time.struct_time: (year, month, day, hour, minute, second, wday, yday, isdst)
Struct(v) == [some |-> TRUE, v |-> v]

\* Python's None where an isoformat string is expected
NoTime == <<>>

\* the writers of the store: invocations of the batch job
Procs == {"A", "B"}

\* len(text) > 200 in fetch_article_content
Threshold == 200

\* text lengths around the threshold
Lens == {0, Threshold - 50, Threshold, Threshold + 1, Threshold + 100}

--------------------------------------------------------------------------
(***************************************************************************)
(* parse_published                                                         *)
(***************************************************************************)
\* truth value of a struct in `a or b` and `if struct`: None and () are false
Truthy(s) == s.some /\ Len(s.v) > 0

IsLeap(y) == (y % 4 = 0 /\ y % 100 # 0) \/ y % 400 = 0

DaysInMonth(y, m) ==
    IF m = 2 THEN (IF IsLeap(y) THEN 29 ELSE 28)
    ELSE IF m \in {4, 6, 9, 11} THEN 30 ELSE 31

\* struct[:6]
First6(v) == SubSeq(v, 1, IF Len(v) < 6 THEN Len(v) ELSE 6)

\* field k of the arguments of datetime(*args), 0 for an omitted time field
Arg(a, k) == IF k <= Len(a) THEN a[k] ELSE 0

\* whether datetime(*a, tzinfo=timezone.utc) returns rather than raises
DatetimeOk(a) ==
    /\ Len(a) >= 3
    /\ a[1] \in 1..9999
    /\ a[2] \in 1..12
    /\ a[3] \in 1..DaysInMonth(a[1], a[2])
    /\ Arg(a, 4) \in 0..23
    /\ Arg(a, 5) \in 0..59
    /\ Arg(a, 6) \in 0..59

\* datetime.isoformat() of an aware UTC datetime: the six fields and the offset
IsoFormat(a) ==
    <<a[1], a[2], a[3], Arg(a, 4), Arg(a, 5), Arg(a, 6), "+00:00">>

\* updated_parsed or published_parsed
PickedStructUpdatedFirst(entry) ==
    IF Truthy(entry.updated_parsed) THEN entry.updated_parsed
    ELSE entry.published_parsed

\* the struct parse_published picks: published_parsed or updated_parsed
PickedStruct(entry) ==
    IF Truthy(entry.published_parsed) THEN entry.published_parsed
    ELSE entry.updated_parsed

\* parse_published raises: datetime() rejects the picked struct
parse_published_raises(entry) ==
    /\ Truthy(PickedStruct(entry))
    /\ ~DatetimeOk(First6(PickedStruct(entry).v))

\* published_at of save_entry: parse_published(entry).isoformat(), or None
parse_published(entry) ==
    IF Truthy(PickedStruct(entry))
    THEN IsoFormat(First6(PickedStruct(entry).v))
    ELSE NoTime

--------------------------------------------------------------------------
(***************************************************************************)
(* fetch_article_content                                                   *)
(***************************************************************************)
BoundedSeq(S, n) == UNION {[1..k -> S] : k \in 0..n}

SeqMax(s) ==
    IF Len(s) = 0 THEN 0
    ELSE CHOOSE m \in {s[k] : k \in 1..Len(s)} : \A k \in 1..Len(s) : s[k] <= m

\* A fetched page: whether the GET succeeded with a 2xx status, the text
\* length of the first <article> and of the first <main> (a sequence of
\* length 0 when the page has none), the text lengths of the class-matched
\* elements in document order, and the length of the whole visible text,
\* which contains the text of every element.
Pages ==
    {pg \in [ok : BOOLEAN, article : BoundedSeq(Lens, 1), main : BoundedSeq(Lens, 1),
              classed : BoundedSeq(Lens, MaxClassed), body : Lens] :
        pg.body >= SeqMax(pg.article \o pg.main \o pg.classed)}

\* the candidates list, in the order it is built
candidates(pg) ==
    [k \in 1..Len(pg.article) |-> Text("article", k, pg.article[k])]
    \o [k \in 1..Len(pg.main) |-> Text("main", k, pg.main[k])]
    \o [k \in 1..Len(pg.classed) |-> Text("class", k, pg.classed[k])]

\* a text of exactly 200 characters passes
AcceptsAtThreshold(text) == text.len > 0 /\ text.len >= Threshold

\* the test of the candidate loop: text and len(text) > 200
Accepts(text) == text.len > 0 /\ text.len > Threshold

\* the candidate loop from position k on: the first accepted text
RECURSIVE FirstAccepted(_, _)
FirstAccepted(c, k) ==
    IF k > Len(c) THEN NoText
    ELSE IF Accepts(c[k]) THEN c[k]
    ELSE FirstAccepted(c, k + 1)

\* body.get_text(...) or None
BodyText(pg) == IF pg.body > 0 THEN Text("body", 1, pg.body) ELSE NoText

\* fetch_article_content(url) when the GET of url yields pg
fetch_article_content(pg) ==
    IF ~pg.ok THEN NoText
    ELSE IF FirstAccepted(candidates(pg), 1) # NoText
         THEN FirstAccepted(candidates(pg), 1)
         ELSE BodyText(pg)

--------------------------------------------------------------------------
(***************************************************************************)
(* Feeds and entries                                                       *)
(***************************************************************************)
\* FEEDS: the source list, a source being named by its place in the list
FEEDS == [f \in 1..NumFeeds |-> [source |-> f, url |-> f]]

\* a feedparser entry; an attribute the entry lacks reads as None (getattr)
Entry(link, title, summary, published_parsed, updated_parsed) ==
    [link |-> link, title |-> title, summary |-> summary,
     published_parsed |-> published_parsed, updated_parsed |-> updated_parsed]

Summary == Text("summary", 1, 40)
PublishedStruct == Struct(<<2024, 1, 1, 0, 0, 0, 0, 1, 0>>)
UpdatedStruct == Struct(<<2024, 2, 29, 23, 59, 59, 3, 60, 0>>)
\* a struct datetime() rejects: month 13
BadStruct == Struct(<<2024, 13, 1, 0, 0, 0, 0, 1, 0>>)
\* a struct too short for datetime(): no month, no day
ShortStruct == Struct(<<2024>>)

eBoth == Entry("u1", "T1", Summary, PublishedStruct, UpdatedStruct)
eUpdated == Entry("u1", "T2", NoText, NoStruct, UpdatedStruct)
eNeither == Entry("u2", "T3", Summary, NoStruct, NoStruct)
eBadTime == Entry("u2", "T4", Summary, BadStruct, UpdatedStruct)
eShortTime == Entry("u1", "T5", NoText, NoStruct, ShortStruct)
eNoLink == Entry(None, "T6", Summary, PublishedStruct, NoStruct)
eEmptyLink == Entry("", "T7", Summary, NoStruct, UpdatedStruct)
eNoTitle == Entry("u2", None, Summary, PublishedStruct, NoStruct)
eEmptyTitle == Entry("u1", "", NoText, NoStruct, NoStruct)

\* what one feed may hold when it is read: d.entries
FeedContents ==
    { <<>>,
      <<eBoth, eBadTime, eNeither>>,
      <<eUpdated, eNoLink, eBoth>>,
      <<eNoTitle, eShortTime, eEmptyLink, eEmptyTitle>> }

\* the pages the pipeline's article fetch may meet
SamplePages ==
    { [ok |-> FALSE, article |-> <<>>, main |-> <<>>, classed |-> <<>>, body |-> 0],
      [ok |-> TRUE, article |-> <<Threshold + 100>>, main |-> <<>>, classed |-> <<>>,
       body |-> Threshold + 100],
      [ok |-> TRUE, article |-> <<>>, main |-> <<>>, classed |-> <<Threshold - 50>>,
       body |-> Threshold - 50] }

--------------------------------------------------------------------------
(***************************************************************************)
(* State                                                                   *)
(***************************************************************************)
VARIABLES
    snapshot,     \* what each feed of FEEDS currently serves
    store,        \* the articles table: the rows in insertion order
    origin,       \* history: for each row, the save_entry call that inserted it
    proc,         \* each invocation's position in fetch_all and save_entry
    settled,      \* history: some run returned having met no transient failure
    settledStore, \* history: the store when that run ended
    page,         \* the page fetch_article_content is applied to
    result        \* what fetch_article_content returned for page

vars == <<snapshot, store, origin, proc, settled, settledStore, page, result>>

Pending == Text("pending", 0, 0)

\* a process that is not running the job
Idle ==
    [pc |-> "idle", fi |-> 0, ei |-> 0, published_at |-> NoTime,
     content_text |-> NoText, fetched |-> CHOOSE pg \in SamplePages : ~pg.ok,
     steps |-> <<>>, visited |-> <<>>, handled |-> {}, inserted |-> {},
     feedFailed |-> {}, clean |-> TRUE]

\* entries = getattr(d, "entries", []) of the feed being traversed
entries(s) == IF s.fi \in s.feedFailed THEN <<>> ELSE snapshot[s.fi]

\* the loop variable entry of fetch_all
entry(s) == entries(s)[s.ei]

\* the rows a select on url returns: existing.data
existing(url) == {k \in 1..Len(store) : store[k].url = url}

\* `not x` for a string: None and "" are false
Falsy(x) == x = None \/ x = ""

--------------------------------------------------------------------------
(***************************************************************************)
(* fetch_all: control flow                                                 *)
(***************************************************************************)
\* the outer for loop moves on: the next feed, or the end of fetch_all
NextSource(s) ==
    IF s.fi < NumFeeds
    THEN [s EXCEPT !.pc = "feed", !.fi = @ + 1, !.ei = 0]
    ELSE [s EXCEPT !.pc = "end", !.ei = 0]

\* save_entry is over for this entry: the inner for loop moves on
Advance(s) ==
    LET t == [s EXCEPT !.published_at = NoTime, !.content_text = NoText,
                       !.fetched = Idle.fetched, !.steps = <<>>]
    IN  IF s.ei < Len(entries(s))
        THEN [t EXCEPT !.pc = "entry", !.ei = @ + 1,
                       !.visited = Append(@, <<s.fi, s.ei + 1>>)]
        ELSE NextSource(t)

\* an exception leaves save_entry with no handler around the call
EntryRaisedUncaught(s) == [s EXCEPT !.pc = "aborted"]

\* an exception leaves save_entry: except Exception, print, next entry
EntryRaised(s) == Advance(s)

\* an unreadable feed stops the traversal
FeedFailedAborts(s) ==
    [s EXCEPT !.pc = "aborted", !.feedFailed = @ \cup {s.fi}]

\* a feed that could not be read or parsed: d has no entries
FeedFailed(s) ==
    NextSource([s EXCEPT !.feedFailed = @ \cup {s.fi}])

\* the feed was read
FeedRead(s) ==
    IF Len(snapshot[s.fi]) > 0
    THEN [s EXCEPT !.pc = "entry", !.ei = 1, !.visited = Append(@, <<s.fi, 1>>)]
    ELSE NextSource(s)

Running(s) == s.pc \in {"feed", "entry", "check", "fetch", "insert", "end"}

\* only the link is required
RejectedLinkOnly(e) == Falsy(e.link)

\* if not url or not title: return
Rejected(e) == Falsy(e.link) \/ Falsy(e.title)

\* save_entry returned for this entry without raising: it was rejected,
\* found in the store, or inserted
Returned(s) ==
    Advance(IF Rejected(entry(s)) THEN s
            ELSE [s EXCEPT !.handled = @ \cup {entry(s).link}])

\* history: the run met a failure that is not in the feed's own data
Transient(s) == [s EXCEPT !.clean = FALSE]

--------------------------------------------------------------------------
(***************************************************************************)
(* save_entry                                                              *)
(***************************************************************************)
\* the dedup gate left out: every url is admitted
AdmitsAlways(url) == TRUE

\* if existing.data: return -- the insert is reached only with no row found
Admits(url) == existing(url) = {}

\* content_raw holds the extracted body and falls back to the summary
ContentRawExtracted(summary, content_text) ==
    IF content_text # NoText THEN content_text ELSE summary

\* content_raw = summary
ContentRaw(summary, content_text) == summary

\* content_text or summary
ContentText(summary, content_text) ==
    IF content_text # NoText THEN content_text ELSE summary

\* the row save_entry inserts
Row(feed_source, e, published_at, content_text) ==
    [source |-> feed_source,
     url |-> e.link,
     title |-> e.title,
     summary |-> e.summary,
     content_raw |-> ContentRaw(e.summary, content_text),
     content_text |-> ContentText(e.summary, content_text),
     published_at |-> published_at]

\* The order of the calls of save_entry after the required-field test, with
\* the article fetched before the store is asked.
CallOrderFetchFirst == <<"parse_published", "fetch_article_content", "exists", "insert">>

\* The order of the calls of save_entry after the required-field test.
CallOrder == <<"parse_published", "exists", "fetch_article_content", "insert">>

\* the program counter at which a call of CallOrder is made
PcOf(call) ==
    CASE call = "parse_published" -> "entry"
      [] call = "exists" -> "check"
      [] call = "fetch_article_content" -> "fetch"
      [] call = "insert" -> "insert"

\* after the k-th call of CallOrder returned, the next one is due
After(s, call) ==
    LET k == CHOOSE i \in 1..Len(CallOrder) : CallOrder[i] = call
    IN  [s EXCEPT !.steps = Append(@, call), !.pc = PcOf(CallOrder[k + 1])]

\* whether call is the one save_entry makes at this point
Due(s, call) == s.pc = PcOf(call)

Set(p, s) == proc' = [proc EXCEPT ![p] = s]

\* fetch_all is invoked
StartRun(p) ==
    /\ proc[p].pc = "idle"
    /\ Set(p, [Idle EXCEPT !.pc = "feed", !.fi = 1])
    /\ UNCHANGED <<snapshot, store, origin, settled, settledStore, page, result>>

\* d = feedparser.parse(url) returns the feed's entries
ReadFeed(p) ==
    /\ proc[p].pc = "feed"
    /\ Set(p, FeedRead(proc[p]))
    /\ UNCHANGED <<snapshot, store, origin, settled, settledStore, page, result>>

\* d = feedparser.parse(url) could not retrieve or parse the feed
ReadFeedFails(p) ==
    /\ proc[p].pc = "feed"
    /\ Set(p, FeedFailed(Transient(proc[p])))
    /\ UNCHANGED <<snapshot, store, origin, settled, settledStore, page, result>>

\* save_entry up to the existence check: required fields, parse_published
Normalize(p) ==
    LET s == proc[p]
        e == entry(s)
    IN  /\ s.pc = "entry"
        /\ IF Rejected(e) THEN Set(p, Returned(s))
           ELSE IF parse_published_raises(e) THEN Set(p, EntryRaised(s))
           ELSE Set(p, After([s EXCEPT !.published_at = parse_published(e)],
                             "parse_published"))
        /\ UNCHANGED <<snapshot, store, origin, settled, settledStore, page, result>>

\* the existence check: select id from articles where url = ... limit 1
Check(p) ==
    LET s == proc[p]
    IN  /\ Due(s, "exists")
        /\ IF Admits(entry(s).link) THEN Set(p, After(s, "exists"))
           ELSE Set(p, Returned(s))
        /\ UNCHANGED <<snapshot, store, origin, settled, settledStore, page, result>>

\* the existence check raises (the store is unreachable, the request fails)
CheckRaises(p) ==
    /\ Due(proc[p], "exists")
    /\ Set(p, EntryRaised(Transient(proc[p])))
    /\ UNCHANGED <<snapshot, store, origin, settled, settledStore, page, result>>

\* content_text = fetch_article_content(url), the GET yielding some page
Fetch(p) ==
    /\ Due(proc[p], "fetch_article_content")
    /\ \E pg \in SamplePages :
          Set(p, After([proc[p] EXCEPT !.content_text = fetch_article_content(pg),
                                       !.fetched = pg],
                       "fetch_article_content"))
    /\ UNCHANGED <<snapshot, store, origin, settled, settledStore, page, result>>

\* fetch_article_content raises past its own handler (the HTML parser fails)
FetchRaises(p) ==
    /\ Due(proc[p], "fetch_article_content")
    /\ Set(p, EntryRaised(Transient(proc[p])))
    /\ UNCHANGED <<snapshot, store, origin, settled, settledStore, page, result>>

\* supabase.table("articles").insert(row).execute()
Insert(p) ==
    LET s == proc[p]
    IN  /\ s.pc = "insert"
        /\ store' = Append(store, Row(FEEDS[s.fi].source, entry(s), s.published_at,
                                      s.content_text))
        /\ origin' = Append(origin, [by |-> p, fi |-> s.fi, ei |-> s.ei,
                                     fetched |-> s.fetched,
                                     steps |-> Append(s.steps, "insert")])
        /\ Set(p, Returned([s EXCEPT !.inserted = @ \cup {Len(store) + 1}]))
        /\ UNCHANGED <<snapshot, settled, settledStore, page, result>>

\* the row is written, and the line reporting it raises (res.data holds no row)
InsertReportRaises(p) ==
    LET s == proc[p]
    IN  /\ s.pc = "insert"
        /\ store' = Append(store, Row(FEEDS[s.fi].source, entry(s), s.published_at,
                                      s.content_text))
        /\ origin' = Append(origin, [by |-> p, fi |-> s.fi, ei |-> s.ei,
                                     fetched |-> s.fetched,
                                     steps |-> Append(s.steps, "insert")])
        /\ Set(p, EntryRaised(Transient([s EXCEPT !.inserted = @ \cup {Len(store) + 1}])))
        /\ UNCHANGED <<snapshot, settled, settledStore, page, result>>

\* the insert raises and no row is written
InsertRaises(p) ==
    /\ proc[p].pc = "insert"
    /\ Set(p, EntryRaised(Transient(proc[p])))
    /\ UNCHANGED <<snapshot, store, origin, settled, settledStore, page, result>>

\* fetch_all returns
Finish(p) ==
    /\ proc[p].pc = "end"
    /\ Set(p, [proc[p] EXCEPT !.pc = "done"])
    /\ settled' = (settled \/ proc[p].clean)
    /\ settledStore' = IF ~settled /\ proc[p].clean THEN store ELSE settledStore
    /\ UNCHANGED <<snapshot, store, origin, page, result>>

\* the process is terminated from outside in the middle of a run
Interrupt(p) ==
    /\ Running(proc[p])
    /\ Set(p, Idle)
    /\ UNCHANGED <<snapshot, store, origin, settled, settledStore, page, result>>

\* the process has exited after fetch_all returned; the scheduler may start it again
Exit(p) ==
    /\ proc[p].pc = "done"
    /\ Set(p, Idle)
    /\ UNCHANGED <<snapshot, store, origin, settled, settledStore, page, result>>

\* result = fetch_article_content(url) for the page the url serves
Extract ==
    /\ result = Pending
    /\ result' = fetch_article_content(page)
    /\ UNCHANGED <<snapshot, store, origin, proc, settled, settledStore, page>>

--------------------------------------------------------------------------
(***************************************************************************)
(* Specifications                                                          *)
(***************************************************************************)
NoPage == CHOOSE pg \in SamplePages : ~pg.ok

\* an empty store, nothing running, every feed serving some content
Init ==
    /\ snapshot \in [1..NumFeeds -> FeedContents]
    /\ store = <<>>
    /\ origin = <<>>
    /\ proc = [p \in Procs |-> Idle]
    /\ settled = FALSE
    /\ settledStore = <<>>
    /\ page = NoPage
    /\ result = Pending

\* what the scheduler's one invocation at a time can do
Step(p) ==
    \/ StartRun(p)
    \/ ReadFeed(p)
    \/ ReadFeedFails(p)
    \/ Normalize(p)
    \/ Check(p)
    \/ CheckRaises(p)
    \/ Fetch(p)
    \/ FetchRaises(p)
    \/ Insert(p)
    \/ InsertRaises(p)
    \/ InsertReportRaises(p)
    \/ Finish(p)
    \/ Interrupt(p)
    \/ Exit(p)

Next == Step("A")

Spec == Init /\ [][Next]_vars

\* two invocations, each one run, every feed serving the same content
InitConc ==
    /\ \E c \in FeedContents : snapshot = [f \in 1..NumFeeds |-> c]
    /\ store = <<>>
    /\ origin = <<>>
    /\ proc = [p \in Procs |-> Idle]
    /\ settled = FALSE
    /\ settledStore = <<>>
    /\ page = NoPage
    /\ result = Pending

StepConc(p) ==
    \/ StartRun(p)
    \/ ReadFeed(p)
    \/ Normalize(p)
    \/ Check(p)
    \/ Fetch(p)
    \/ Insert(p)
    \/ Finish(p)

NextConc == \E p \in Procs : StepConc(p)

SpecConc == InitConc /\ [][NextConc]_vars

\* every bounded page, not yet fetched
InitExtract ==
    /\ snapshot = [f \in 1..NumFeeds |-> <<>>]
    /\ store = <<>>
    /\ origin = <<>>
    /\ proc = [p \in Procs |-> Idle]
    /\ settled = FALSE
    /\ settledStore = <<>>
    /\ page \in Pages
    /\ result = Pending

NextExtract == Extract

SpecExtract == InitExtract /\ [][NextExtract]_vars

--------------------------------------------------------------------------
(***************************************************************************)
(* Properties                                                              *)
(***************************************************************************)
Range(q) == {q[k] : k \in 1..Len(q)}

StoreUrls == {store[k].url : k \in 1..Len(store)}

\* every place <<feed, index>> of the snapshot
Positions == UNION {{<<f, i>> : i \in 1..Len(snapshot[f])} : f \in 1..NumFeeds}

EntryAt(pos) == snapshot[pos[1]][pos[2]]

\* the entry a row was made from
EntryOf(k) == snapshot[origin[k].fi][origin[k].ei]

HasField(x) == x # None /\ x # ""

\* an entry with link and title whose own timestamp datetime() accepts
ValidEntry(e) == HasField(e.link) /\ HasField(e.title) /\ ~parse_published_raises(e)

ValidUrls == {EntryAt(pos).link : pos \in {q \in Positions : ValidEntry(EntryAt(q))}}

\* every entry of every feed that was read has been given to save_entry
AllVisited(s) ==
    \A pos \in Positions : pos[1] \notin s.feedFailed => pos \in Range(s.visited)

Returns(s) == s.pc \in {"end", "done"}

\* C1: an exception raised while one entry is processed never leaves
\* fetch_all; every entry of every feed read is still given to save_entry,
\* every entry for which save_entry returned has its url in the store, and a
\* run whose only exceptions come from the entries' own timestamps ends with
\* every valid entry's url persisted.
C1_EntryIsolation ==
    \A p \in Procs :
        LET s == proc[p]
        IN  /\ s.pc # "aborted"
            /\ s.handled \subseteq StoreUrls
            /\ Returns(s) => AllVisited(s)
            /\ Returns(s) /\ s.clean => ValidUrls \subseteq StoreUrls

\* three entries, the second raising: a run has returned and the rows made
\* from the first and the third are in the store
C1_Witness ==
    \E p \in Procs, f \in 1..NumFeeds :
        /\ proc[p].pc = "done"
        /\ Len(snapshot[f]) = 3
        /\ parse_published_raises(snapshot[f][2])
        /\ \E j, k \in 1..Len(store) :
              /\ <<origin[j].fi, origin[j].ei>> = <<f, 1>>
              /\ <<origin[k].fi, origin[k].ei>> = <<f, 3>>

\* C2: with runs that never overlap, the store holds at most one row per
\* url, and the insert is only reached while no row has the entry's url.
C2_AtMostOnePerUrl ==
    /\ \A j, k \in 1..Len(store) : store[j].url = store[k].url => j = k
    /\ \A p \in Procs :
          proc[p].pc = "insert" => existing(entry(proc[p]).link) = {}

\* a run has met an entry whose url an earlier run had inserted, and skipped it
C2_Witness ==
    \E p \in Procs, k \in 1..Len(store) :
        /\ store[k].url \in proc[p].handled
        /\ k \notin proc[p].inserted
        /\ proc[p].pc = "done"

\* C3, as claimed: content_raw is the summary when the fetch fails and the
\* extracted text when the fetch yields at least 200 characters.
C3_ContentRawFallbackChain ==
    \A k \in 1..Len(store) :
        LET pg == origin[k].fetched
            extracted == fetch_article_content(pg)
        IN  /\ ~pg.ok => store[k].content_raw = EntryOf(k).summary
            /\ pg.ok /\ extracted.len >= Threshold =>
                  store[k].content_raw = extracted

\* C3, amended: content_raw is the feed's summary whatever the fetch yields
\* (null with no summary); the extracted text goes to content_text, which
\* falls back to the summary when the fetch fails or yields no text.
C3_ContentRawIsSummary ==
    \A k \in 1..Len(store) :
        LET pg == origin[k].fetched
            extracted == fetch_article_content(pg)
        IN  /\ store[k].content_raw = EntryOf(k).summary
            /\ store[k].summary = EntryOf(k).summary
            /\ extracted = NoText => store[k].content_text = EntryOf(k).summary
            /\ extracted # NoText => store[k].content_text = extracted

\* a row whose article fetch yielded more than 200 characters, and a row of
\* an entry with no summary whose fetch failed
C3_Witness ==
    /\ \E k \in 1..Len(store) :
          /\ origin[k].fetched.ok
          /\ fetch_article_content(origin[k].fetched).len >= Threshold
          /\ store[k].content_raw # fetch_article_content(origin[k].fetched)
    /\ \E k \in 1..Len(store) :
          /\ ~origin[k].fetched.ok
          /\ EntryOf(k).summary = NoText
          /\ store[k].content_raw = NoText

\* C4: an entry with no link or no title (missing or empty) reaches no store
\* call and no row is made from it, fetch_all goes on, and every row has a
\* non-empty url and a non-empty title.
C4_RequiredFields ==
    /\ \A k \in 1..Len(store) :
          /\ HasField(store[k].url)
          /\ HasField(store[k].title)
          /\ HasField(EntryOf(k).link) /\ HasField(EntryOf(k).title)
    /\ \A p \in Procs :
          /\ proc[p].pc # "aborted"
          /\ proc[p].pc \in {"check", "fetch", "insert"} =>
                HasField(entry(proc[p]).link) /\ HasField(entry(proc[p]).title)

\* a run has gone past an entry with no title and past one with an empty
\* link, and has returned
C4_Witness ==
    \E p \in Procs :
        /\ proc[p].pc = "done"
        /\ \E pos \in Range(proc[p].visited) : EntryAt(pos).title = None
        /\ \E pos \in Range(proc[p].visited) : EntryAt(pos).link = ""

C6_RerunIdempotent ==
    settled =>
        /\ StoreUrls = ValidUrls
        /\ \A j, k \in 1..Len(store) : store[j].url = store[k].url => j = k
        /\ store = settledStore

\* a complete run that found rows of earlier, unfinished runs in the store and
\* inserted only the rest
C6_Witness ==
    \E p \in Procs :
        /\ settled
        /\ proc[p].pc = "done"
        /\ proc[p].clean
        /\ proc[p].inserted # {}
        /\ Cardinality(proc[p].inserted) < Len(store)

\* the isoformat of a struct's first six fields, read as UTC
IsoUtc(st) == <<st.v[1], st.v[2], st.v[3], st.v[4], st.v[5], st.v[6], "+00:00">>

\* C7: published_at is the published timestamp when the entry has one, else
\* the updated timestamp read as UTC, else null, the row being persisted in
\* each case.
C7_PublishedAtFallback ==
    \A k \in 1..Len(store) :
        LET e == EntryOf(k)
        IN  /\ e.published_parsed.some =>
                  store[k].published_at = IsoUtc(e.published_parsed)
            /\ ~e.published_parsed.some /\ e.updated_parsed.some =>
                  store[k].published_at = IsoUtc(e.updated_parsed)
            /\ ~e.published_parsed.some /\ ~e.updated_parsed.some =>
                  store[k].published_at = NoTime

\* a row of an entry with only an updated timestamp, and a row of an entry
\* with neither
C7_Witness ==
    /\ \E k \in 1..Len(store) :
          /\ ~EntryOf(k).published_parsed.some
          /\ EntryOf(k).updated_parsed.some
          /\ store[k].published_at = IsoUtc(UpdatedStruct)
    /\ \E k \in 1..Len(store) :
          /\ ~EntryOf(k).published_parsed.some
          /\ ~EntryOf(k).updated_parsed.some
          /\ store[k].published_at = NoTime

\* the text the candidate rule selects on a fetched page
Selected(pg) ==
    LET long(n) == n > Threshold
        first == CHOOSE k \in 1..Len(pg.classed) :
                    /\ long(pg.classed[k])
                    /\ \A j \in 1..(k - 1) : ~long(pg.classed[j])
    IN  IF pg.article # <<>> /\ long(pg.article[1])
        THEN Text("article", 1, pg.article[1])
        ELSE IF pg.main # <<>> /\ long(pg.main[1])
        THEN Text("main", 1, pg.main[1])
        ELSE IF \E k \in 1..Len(pg.classed) : long(pg.classed[k])
        THEN Text("class", first, pg.classed[first])
        ELSE IF pg.body > 0 THEN Text("body", 1, pg.body)
        ELSE NoText

\* C8: on a fetched page the result is the text of the first candidate, in
\* the order article, main, class-matched elements in document order, that is
\* longer than 200 characters; no candidate of 200 characters or fewer is
\* returned; with no such candidate the result is the page's whole text, or
\* absent when that is empty.
C8_FirstLongCandidate ==
    result # Pending /\ page.ok =>
        /\ result = Selected(page)
        /\ result.src \in {"article", "main", "class"} => result.len > Threshold
        /\ result.src \in {"article", "main", "class", "body", "none"}
        /\ result = NoText <=> page.body = 0

\* the only candidate is a class-matched element of 150 characters and the
\* result is the whole page's text
C8_Witness ==
    /\ result # Pending
    /\ page.ok
    /\ page.article = <<>> /\ page.main = <<>>
    /\ page.classed = <<Threshold - 50>>
    /\ result = Text("body", 1, page.body)

\* C9: with two runs overlapping, two rows with one url are never inserted
\* by the same run; a run past its existence check for a url that a row now
\* has, has been overtaken by the other run's insert.
C9_DuplicateOnlyByRace ==
    /\ \A j, k \in 1..Len(store) :
          store[j].url = store[k].url /\ j # k => origin[j].by # origin[k].by
    /\ \A p \in Procs :
          proc[p].pc \in {"fetch", "insert"} =>
              \A k \in existing(entry(proc[p]).link) : origin[k].by # p

\* both runs passed the existence check for a url before either inserted,
\* and the store holds two rows with that url
C9_Witness ==
    \E j, k \in 1..Len(store) :
        /\ j < k
        /\ store[j].url = store[k].url
        /\ origin[j].by # origin[k].by

\* whether call a comes before call b in the calls q made for an entry
Before(q, a, b) ==
    \A i \in 1..Len(q) : q[i] = b => \E j \in 1..(i - 1) : q[j] = a

\* C10, as claimed: the Content Extractor is invoked on the entry's link
\* before the existence check for its url is made.
C10_ExtractBeforeCheck ==
    /\ \A p \in Procs : Before(proc[p].steps, "fetch_article_content", "exists")
    /\ \A k \in 1..Len(store) :
          Before(origin[k].steps, "fetch_article_content", "exists")

IsPrefix(q, r) == Len(q) <= Len(r) /\ \A i \in 1..Len(q) : q[i] = r[i]

LexLess(a, b) == a[1] < b[1] \/ (a[1] = b[1] /\ a[2] < b[2])

\* C10, amended: sources are taken in list order and entries in feed order,
\* one at a time, and for an entry that is not rejected the calls are made
\* in the order timestamp parsing, existence check, Content Extractor,
\* insert: the extractor is invoked only after the existence check found no
\* row.
C10_CheckBeforeExtract ==
    /\ \A p \in Procs :
          LET s == proc[p]
          IN  /\ IsPrefix(s.steps, <<"parse_published", "exists",
                                     "fetch_article_content", "insert">>)
              /\ \A i, j \in 1..Len(s.visited) :
                    i < j => LexLess(s.visited[i], s.visited[j])
              /\ \A pos \in Positions :
                    /\ s.pc \in {"entry", "check", "fetch", "insert"}
                    /\ LexLess(pos, <<s.fi, s.ei>>)
                    /\ pos[1] \notin s.feedFailed
                    => pos \in Range(s.visited)
              /\ s.pc \in {"entry", "check", "fetch", "insert"} =>
                    s.visited[Len(s.visited)] = <<s.fi, s.ei>>
    /\ \A k \in 1..Len(store) :
          origin[k].steps = <<"parse_published", "exists",
                              "fetch_article_content", "insert">>

\* a run about to insert a later entry of its second source, the store
\* asked before the article was fetched
C10_Witness ==
    \E p \in Procs :
        /\ proc[p].pc = "insert"
        /\ proc[p].fi > 1
        /\ proc[p].ei > 1
        /\ proc[p].steps = <<"parse_published", "exists", "fetch_article_content">>

==========================================================================
